---- MODULE Spec2Model ----
(***************************************************************************)
(* A state-machine model of UCI_Adult_PyTorch.py: the instantiation of the  *)
(* two models, the two training runs (model_0, then model_1) with their    *)
(* early stopping, and the test pass of model_0 with its confusion matrix. *)
(*                                                                         *)
(* The script is sequential; pc is its position.  Tensors are kept by what *)
(* the script reads from them: a batch by its labels and predictions, a    *)
(* loss by its float value, a model's parameters by a version tag that     *)
(* every optimizer step changes.  Names local to one batch (y_logits,      *)
(* y_pred, loss, acc) live inside the action of that batch.                *)
(* The four history lists keep, for every appended value, the epoch that   *)
(* appended it; the value itself is the scalar variable of the same name   *)
(* (train_loss, train_accuracy, val_loss, val_accuracy) at that moment.    *)
(***************************************************************************)
EXTENDS Integers, Sequences, FiniteSets, TLC

\* ---------------------------------------------------------------- bounds
\* Data sizes of the model (the script's sizes come from the CSV file).  With
\* batch_size they are chosen so that every batch holds at least two examples:
\* .squeeze() (lines 357, 419, 739) turns the logits of a one-example batch
\* into a scalar that loss_fn does not accept against its one-element target.
NumTrain == 5
NumVal == 5
NumTest == 5
\* The script's batch_size is 32 (line 170); the model scales it down with the
\* data so that a pass still has several batches.
batch_size == 3
\* Finite batch losses are 0 .. MaxBatchLoss (binary cross-entropy is >= 0).
MaxBatchLoss == 1
\* Parameter values are kept as one of ParamVersions tags; an optimizer step
\* moves to the next tag, cyclically.
ParamVersions == 3

\* ------------------------------------------------------ program constants
\* epochs = 20 (lines 327, 529) and patience = 10 (lines 338, 540, 714).
SrcEpochs == 20
SrcPatience == 10

\* ------------------------------------------------------------------ floats
\* A Python float: a non-negative rational num/den, +inf, or NaN.  A loss is
\* kept in units of the spacing of the floats around it (den = 1): the result
\* of a float operation is the representable number nearest to the exact one.
Fin(n) == [kind |-> "fin", num |-> n, den |-> 1]
PosInf == [kind |-> "inf", num |-> 0, den |-> 1]
NaN == [kind |-> "nan", num |-> 0, den |-> 1]

IsFinite(a) == a.kind = "fin"

\* a + b on floats (no negative operand occurs, so inf + x = inf).
FAdd(a, b) ==
    IF a.kind = "nan" \/ b.kind = "nan" THEN NaN
    ELSE IF a.kind = "inf" \/ b.kind = "inf" THEN PosInf
    ELSE [kind |-> "fin", num |-> a.num * b.den + b.num * a.den, den |-> a.den * b.den]

\* a < b on floats: every comparison with NaN is False.
FLt(a, b) ==
    IF a.kind = "nan" \/ b.kind = "nan" THEN FALSE
    ELSE IF a.kind = "inf" THEN FALSE
    ELSE IF b.kind = "inf" THEN TRUE
    ELSE a.num * b.den < b.num * a.den

\* The integer nearest to num / den, the even one of two equally near (the
\* rounding of IEEE 754 arithmetic), for num >= 0 and den > 0.
RoundHalfEven(num, den) ==
    LET q == num \div den
        r == num % den
    IN  IF 2 * r < den THEN q
        ELSE IF 2 * r > den THEN q + 1
        ELSE IF q % 2 = 0 THEN q ELSE q + 1

\* a / n for a positive int n: the quotient, rounded to a representable
\* number; inf and NaN stay what they are.
FDivInt(a, n) ==
    IF a.kind = "fin"
    THEN [kind |-> "fin", num |-> RoundHalfEven(a.num, a.den * n), den |-> 1]
    ELSE a

\* 100 * correct / total (true division of ints, total > 0).
Percent(correct, total) == [kind |-> "fin", num |-> 100 * correct, den |-> total]

\* The value of loss_fn(y_logits, y).item() for one batch.
LossValues == {Fin(n) : n \in 0..MaxBatchLoss} \cup {PosInf, NaN}

\* ------------------------------------------------------------- dataloaders
\* len(dataloader): ceil(n / batch_size).
NumBatches(n) == (n + batch_size - 1) \div batch_size

\* Every batch taken to be a full one ("increases by 32 each time").
BatchLenNominal(n, b) == batch_size

\* len(y) of the b-th batch (0-based) of a loader over n examples.
BatchLen(n, b) ==
    IF (b + 1) * batch_size <= n THEN batch_size ELSE n - b * batch_size

\* The label/prediction vectors a batch of length n can hold.
Vectors(n) == [1..n -> {0, 1}]

\* (y_pred == y).sum().item()
CorrectCount(y_pred, y) == Cardinality({i \in DOMAIN y : y_pred[i] = y[i]})

\* The values (y_pred == y).sum().item() takes over the batches of length n.
CorrectCounts(n) == {CorrectCount(y_pred, y) : y_pred \in Vectors(n), y \in Vectors(n)}

\* ------------------------------------------------------------------- state
\* The value of a name that no statement has assigned yet.
Undefined == -1

VARIABLES
    pc,                 \* position in the script
    run,                \* 0: the model_0 sections, 1: the model_1 section
    epochs, patience,   \* the hyperparameters of lines 327 and 338
    epoch, batch,       \* loop variables
    params,             \* params[m]: version of model m's parameters
    mode,               \* mode[m]: "train" or "eval"
    batch_ops,          \* optimizer calls made for the current training batch
    train_loss, train_correct, train_total, train_accuracy,
    val_loss, val_correct, val_total, val_accuracy,
    best_val_loss, epochs_without_improvement, counter,
    train_losses, val_losses, train_accuracies, val_accuracies,
    error,              \* the exception that ended the script, or "none"
    stopped,            \* the epoch whose break ended the current run, or Undefined
    val_sum,            \* the summed validation loss the last comparison read
    prev,               \* best_val_loss and counter as read by the last comparison
    val_seen,           \* the summed validation losses compared in this run
    val_first,          \* the summed validation loss of the run's epoch 0
    pass_params,        \* params at the start of the current pass
    steps, batches_done,\* optimizer steps / training batches of the current epoch
    test_loss, test_correct, test_total, test_accuracy,
    y_test,             \* the test loader's labels, in its (unshuffled) order
    y_pred_tracker, y_true_tracker, conf_matrix,
    seeded,             \* torch.manual_seed has been called
    unseeded_draws      \* the random draws made before any such call

vars == << pc, run, epochs, patience, epoch, batch, params, mode, batch_ops,
           train_loss, train_correct, train_total, train_accuracy,
           val_loss, val_correct, val_total, val_accuracy,
           best_val_loss, epochs_without_improvement, counter,
           train_losses, val_losses, train_accuracies, val_accuracies,
           error, stopped, val_sum, prev, val_seen, val_first,
           pass_params, steps, batches_done,
           test_loss, test_correct, test_total, test_accuracy,
           y_test, y_pred_tracker, y_true_tracker, conf_matrix,
           seeded, unseeded_draws >>

trainVars == << train_loss, train_correct, train_total, train_accuracy >>
valVars == << val_loss, val_correct, val_total, val_accuracy >>
stopVars == << best_val_loss, epochs_without_improvement, counter >>
histVars == << train_losses, val_losses, train_accuracies, val_accuracies >>
ghostVars == << val_sum, prev, val_seen, val_first >>
testVars == << test_loss, test_correct, test_total, test_accuracy,
               y_test, y_pred_tracker, y_true_tracker, conf_matrix >>
hyperVars == << epochs, patience >>
rngVars == << seeded, unseeded_draws >>

\* ------------------------------------------------------------------- Init
\* The hyperparameter settings explored: the script's own, and the settings a
\* valid range would exclude.
Configs ==
    { [epochs |-> SrcEpochs, patience |-> SrcPatience],
      [epochs |-> SrcEpochs, patience |-> 0],
      [epochs |-> 0, patience |-> SrcPatience] }

\* The state at line 282 but for the hyperparameters: data loaded and the
\* loaders built, the models about to be instantiated, no training name
\* assigned yet.  torch's generator has not been seeded: the only seeds set so
\* far are the random_state arguments of lines 128-154.
Loaded ==
    /\ pc = "build"
    /\ seeded = FALSE
    /\ unseeded_draws = {}
    /\ run = 0
    /\ epoch = Undefined
    /\ batch = Undefined
    /\ params = [m \in {0, 1} |-> 0]
    /\ mode = [m \in {0, 1} |-> "train"]
    /\ batch_ops = << >>
    /\ train_loss = Fin(0) /\ train_correct = 0 /\ train_total = 0
    /\ train_accuracy = Fin(0)
    /\ val_loss = Fin(0) /\ val_correct = 0 /\ val_total = 0
    /\ val_accuracy = Fin(0)
    /\ best_val_loss = PosInf
    /\ epochs_without_improvement = Undefined
    /\ counter = Undefined
    /\ train_losses = << >> /\ val_losses = << >>
    /\ train_accuracies = << >> /\ val_accuracies = << >>
    /\ error = "none"
    /\ stopped = Undefined
    /\ val_sum = Fin(0)
    /\ prev = [best |-> PosInf, counter |-> Undefined]
    /\ val_seen = {}
    /\ val_first = Fin(0)
    /\ pass_params = [m \in {0, 1} |-> 0]
    /\ steps = 0 /\ batches_done = 0
    /\ test_loss = Fin(0) /\ test_correct = 0 /\ test_total = 0
    /\ test_accuracy = Fin(0)
    /\ y_test = << >>
    /\ y_pred_tracker = << >> /\ y_true_tracker = << >>
    /\ conf_matrix = << >>

\* The script as written: epochs = 20, patience = 10.
Init == Loaded /\ epochs = SrcEpochs /\ patience = SrcPatience

\* The script with its two hyperparameter assignments edited.
InitAnyConfig == Loaded /\ \E c \in Configs : epochs = c.epochs /\ patience = c.patience

\* ------------------------------------------------------ the random draws
\* The draws of torch's global generator the script makes: the initial
\* parameters of a model's nn.Linear layers, the permutation a shuffling
\* loader takes when a pass starts iterating it, and the masks of model_1's
\* nn.Dropout layers in train mode.
InitDraws == {"init_model_0", "init_model_1"}

\* The draws made so far without a seed, after the draws `kinds` are made
\* with the generator seeded (sd) or not.
Drawn(draws, sd, kinds) == IF sd THEN draws ELSE draws \cup kinds

\* Lines 283-292: model_0 and model_1 are instantiated; their parameters are
\* drawn by the layers' constructors, and a new nn.Module is in train mode.
BuildModels ==
    /\ pc = "build"
    /\ params' = [m \in {0, 1} |-> 0]
    /\ mode' = [m \in {0, 1} |-> "train"]
    /\ unseeded_draws' = Drawn(unseeded_draws, seeded, InitDraws)
    /\ pc' = "setup"
    /\ UNCHANGED << run, hyperVars, epoch, batch, batch_ops, trainVars, valVars,
                    stopVars, histVars, error, stopped, ghostVars, pass_params,
                    steps, batches_done, testVars, seeded >>

\* ------------------------------------------------------ the training runs
\* Lines 302-338 (run 0) and 504-540 (run 1): the optimizer over the run's
\* model, torch.manual_seed(1024), empty histories, best_val_loss = inf,
\* epochs_without_improvement = 0.  The name counter is not assigned here.
RunSetup ==
    /\ pc = "setup"
    /\ seeded' = TRUE
    /\ UNCHANGED unseeded_draws
    /\ pc' = "epoch_head"
    /\ train_losses' = << >> /\ val_losses' = << >>
    /\ train_accuracies' = << >> /\ val_accuracies' = << >>
    /\ best_val_loss' = PosInf
    /\ epochs_without_improvement' = 0
    /\ epoch' = Undefined
    /\ stopped' = Undefined
    /\ val_seen' = {}
    /\ val_first' = Fin(0)
    /\ UNCHANGED << run, hyperVars, batch, params, mode, batch_ops, trainVars, valVars, counter, error, val_sum, prev,
                    pass_params, steps, batches_done, testVars >>

\* model.train(): model m is put in train mode.
Train(md, m) == [md EXCEPT ![m] = "train"]

\* A call of model.eval() that leaves the mode as it was.
EvalSkipped(md, m) == md

\* model.eval(): model m is put in evaluation mode.
Eval(md, m) == [md EXCEPT ![m] = "eval"]

\* The epoch the for statement of lines 341 / 543 takes next.
NextEpoch == IF epoch = Undefined THEN 0 ELSE epoch + 1

\* Lines 341-351: the loop takes its next epoch, the training accumulators are
\* zeroed and the run's model is put in train mode.
EpochBegin ==
    /\ pc = "epoch_head"
    /\ UNCHANGED rngVars
    /\ NextEpoch < epochs
    /\ pc' = "train_batch"
    /\ epoch' = NextEpoch
    /\ batch' = 0
    /\ train_loss' = Fin(0) /\ train_correct' = 0 /\ train_total' = 0
    /\ train_accuracy' = Fin(0)
    /\ mode' = Train(mode, run)
    /\ pass_params' = params
    /\ steps' = 0 /\ batches_done' = 0
    /\ batch_ops' = << >>
    /\ UNCHANGED << run, hyperVars, params, valVars,
                    stopVars, histVars, error, stopped, ghostVars, testVars >>

\* Lines 341 / 543 when range(epochs) is exhausted: the loop ends.
EpochsExhausted ==
    /\ pc = "epoch_head"
    /\ UNCHANGED rngVars
    /\ ~(NextEpoch < epochs)
    /\ pc' = "run_end"
    /\ UNCHANGED << run, hyperVars, epoch, batch, params, mode, batch_ops,
                    trainVars, valVars, stopVars, histVars, error,
                    stopped, ghostVars, pass_params, steps, batches_done,
                    testVars >>

\* A scalar that only print reads again is put back to the 0 its next
\* assignment (lines 345-348, 405-408) gives it.
ForgetTrain ==
    /\ train_loss' = Fin(0) /\ train_correct' = 0 /\ train_total' = 0
    /\ train_accuracy' = Fin(0)

ForgetVal ==
    /\ val_loss' = Fin(0) /\ val_correct' = 0 /\ val_total' = 0
    /\ val_accuracy' = Fin(0)
    /\ val_sum' = Fin(0)
    /\ prev' = [best |-> PosInf, counter |-> Undefined]

\* optimizer.step(): the parameters of model m move to their next version.
StepParams(p, m) == [p EXCEPT ![m] = (@ + 1) % ParamVersions]

\* An evaluation batch that also applies an optimizer step.
EvalParamsStepped(p, m) == StepParams(p, m)

\* What a forward pass under torch.inference_mode() does to the parameters.
EvalParams(p, m) == p

\* The draws of one training batch: the loader's permutation when the pass
\* starts (shuffle = True, line 175), and the dropout masks of model_1's
\* forward pass in train mode (lines 269, 273).
TrainDraws(b, r, md) ==
    (IF b = 0 THEN {"shuffle_train"} ELSE {})
        \cup (IF r = 1 /\ md[1] = "train" THEN {"dropout"} ELSE {})

\* The draws of one validation batch: the loader's permutation when the pass
\* starts (shuffle = True, line 181).
ValDraws(b) == IF b = 0 THEN {"shuffle_val"} ELSE {}

\* The optimizer calls of one training batch, lines 369-375, in program order.
TrainBatchOps == << "zero_grad", "backward", "step" >>

\* Lines 354-384: one training batch.  The loader yields it; logits,
\* predictions, loss and batch accuracy are computed (357-366); the gradients
\* are cleared, recomputed by loss.backward(), which does not raise on a
\* non-finite loss, and applied by optimizer.step() (369-375); the batch is
\* added to the epoch's accumulators (378-384).
TrainBatch ==
    /\ pc = "train_batch"
    /\ batch < NumBatches(NumTrain)
    /\ unseeded_draws' = Drawn(unseeded_draws, seeded, TrainDraws(batch, run, mode))
    /\ UNCHANGED seeded
    /\ \E l \in LossValues, c \in CorrectCounts(BatchLen(NumTrain, batch)) :
          /\ train_loss' = FAdd(train_loss, l)
          /\ train_correct' = train_correct + c
          /\ train_total' = train_total + BatchLen(NumTrain, batch)
    /\ batch_ops' = TrainBatchOps
    /\ params' = StepParams(params, run)
    /\ steps' = steps + Cardinality({i \in DOMAIN TrainBatchOps : TrainBatchOps[i] = "step"})
    /\ batches_done' = batches_done + 1
    /\ batch' = batch + 1
    /\ UNCHANGED << pc, run, hyperVars, epoch, mode, train_accuracy,
                    valVars, stopVars, histVars, error, stopped, ghostVars,
                    pass_params, testVars >>

\* Lines 386-402: the training loader is exhausted; the loss is averaged per
\* batch, the accuracy computed, and both are appended to their histories.
TrainRecord ==
    /\ pc = "train_batch"
    /\ UNCHANGED rngVars
    /\ ~(batch < NumBatches(NumTrain))
    /\ train_loss' = FDivInt(train_loss, NumBatches(NumTrain))
    /\ train_losses' = Append(train_losses, epoch)
    /\ train_accuracy' = Percent(train_correct, train_total)
    /\ train_accuracies' = Append(train_accuracies, epoch)
    /\ pc' = "val_start"
    /\ UNCHANGED << run, hyperVars, epoch, batch, params, mode, batch_ops,
                    train_correct, train_total, valVars, stopVars,
                    val_losses, val_accuracies, error, stopped, ghostVars,
                    pass_params, steps, batches_done, testVars >>

\* Lines 405-414: the validation accumulators are zeroed and the run's model is
\* put in evaluation mode.
ValBegin ==
    /\ pc = "val_start"
    /\ UNCHANGED rngVars
    /\ val_loss' = Fin(0) /\ val_correct' = 0 /\ val_total' = 0
    /\ val_accuracy' = Fin(0)
    /\ mode' = Eval(mode, run)
    /\ batch' = 0
    /\ pass_params' = params
    /\ ForgetTrain
    /\ pc' = "val_batch"
    /\ UNCHANGED << run, hyperVars, epoch, params, batch_ops, stopVars, histVars, error, stopped, ghostVars, steps,
                    batches_done, testVars >>

\* Lines 416-431: one validation batch: forward pass, predictions, and the
\* batch added to the accumulators.  No optimizer call is made.
ValBatch ==
    /\ pc = "val_batch"
    /\ batch < NumBatches(NumVal)
    /\ unseeded_draws' = Drawn(unseeded_draws, seeded, ValDraws(batch))
    /\ UNCHANGED seeded
    /\ \E l \in LossValues, c \in CorrectCounts(BatchLen(NumVal, batch)) :
          /\ val_loss' = FAdd(val_loss, l)
          /\ val_correct' = val_correct + c
          /\ val_total' = val_total + BatchLen(NumVal, batch)
    /\ params' = EvalParams(params, run)
    /\ batch' = batch + 1
    /\ UNCHANGED << pc, run, hyperVars, epoch, mode, batch_ops,
                    trainVars, val_accuracy, stopVars, histVars,
                    error, stopped, ghostVars, pass_params, steps, batches_done,
                    testVars >>

\* The comparison of line 434 written the other way round.
ImprovedReversed(v, best) == FLt(best, v)

\* Line 434: val_loss < best_val_loss.
Improved(v, best) == FLt(v, best)

\* Lines 434-441: the summed validation loss is compared with best_val_loss.
\* counter += 1 on a name never assigned raises NameError.
ValCompare ==
    /\ pc = "val_batch"
    /\ UNCHANGED rngVars
    /\ ~(batch < NumBatches(NumVal))
    /\ val_sum' = val_loss
    /\ prev' = [best |-> best_val_loss, counter |-> counter]
    /\ val_seen' = val_seen \cup {val_loss}
    /\ val_first' = IF epoch = 0 THEN val_loss ELSE val_first
    /\ IF Improved(val_loss, best_val_loss)
       THEN /\ best_val_loss' = val_loss
            /\ counter' = 0
            /\ pc' = "stop_check"
            /\ error' = error
       ELSE IF counter = Undefined
       THEN /\ error' = "NameError"
            /\ pc' = "crashed"
            /\ UNCHANGED << best_val_loss, counter >>
       ELSE /\ counter' = counter + 1
            /\ pc' = "stop_check"
            /\ UNCHANGED << best_val_loss, error >>
    /\ UNCHANGED << run, hyperVars, epoch, batch, params, mode, batch_ops,
                    trainVars, valVars, epochs_without_improvement,
                    histVars, stopped, pass_params, steps, batches_done,
                    testVars >>

\* Lines 444-446: the early-stopping criterion is met and the loop is left; the
\* epoch's validation metrics are not recorded.
EarlyStop ==
    /\ pc = "stop_check"
    /\ UNCHANGED rngVars
    /\ counter >= patience
    /\ stopped' = epoch
    /\ pc' = "run_end"
    /\ UNCHANGED << run, hyperVars, epoch, batch, params, mode, batch_ops,
                    trainVars, valVars, stopVars, histVars, error,
                    ghostVars, pass_params, steps, batches_done, testVars >>

\* Lines 444-464 otherwise: the validation loss is averaged per batch, the
\* accuracy computed, and both are appended to their histories.
ValRecord ==
    /\ pc = "stop_check"
    /\ UNCHANGED rngVars
    /\ ~(counter >= patience)
    /\ val_loss' = FDivInt(val_loss, NumBatches(NumVal))
    /\ val_losses' = Append(val_losses, epoch)
    /\ val_accuracy' = Percent(val_correct, val_total)
    /\ val_accuracies' = Append(val_accuracies, epoch)
    /\ pc' = "epoch_print"
    /\ UNCHANGED << run, hyperVars, epoch, batch, params, mode, batch_ops,
                    trainVars, val_correct, val_total, stopVars,
                    train_losses, train_accuracies, error, stopped, ghostVars,
                    pass_params, steps, batches_done, testVars >>

\* Lines 467-470: the epoch's metrics are printed; control returns to the for
\* statement.
EpochPrint ==
    /\ pc = "epoch_print"
    /\ UNCHANGED rngVars
    /\ ForgetVal
    /\ pc' = "epoch_head"
    /\ UNCHANGED << run, hyperVars, epoch, batch, params, mode, batch_ops,
                    trainVars, stopVars, histVars, error, stopped,
                    val_seen, val_first, pass_params, steps, batches_done,
                    testVars >>

\* Lines 473-494 (run 0) and 674-695 (run 1): the histories are plotted; the
\* script goes on to the model_1 run, or to the test section.  The test
\* section reads no name of the training sections but model_0, so after the
\* last plot the model drops what those names hold.
RunEnd ==
    /\ pc = "run_end"
    /\ UNCHANGED rngVars
    /\ ForgetVal
    /\ stopped' = Undefined
    /\ val_seen' = {}
    /\ val_first' = Fin(0)
    /\ IF run = 0
       THEN /\ run' = 1
            /\ pc' = "setup"
            /\ UNCHANGED << epoch, batch, stopVars, histVars, batch_ops, steps,
                            batches_done >>
       ELSE /\ run' = run
            /\ pc' = "test_setup"
            /\ epoch' = Undefined /\ batch' = Undefined
            /\ counter' = Undefined
            /\ best_val_loss' = PosInf
            /\ epochs_without_improvement' = Undefined
            /\ train_losses' = << >> /\ val_losses' = << >>
            /\ train_accuracies' = << >> /\ val_accuracies' = << >>
            /\ batch_ops' = << >> /\ steps' = 0 /\ batches_done' = 0
    /\ UNCHANGED << hyperVars, params, mode, trainVars, error, pass_params,
                    testVars >>

\* -------------------------------------------------------- the test section
\* The label vectors the test set can hold.  Both classes occur: the data is
\* undersampled to equal class sizes (lines 127-131) before the random split
\* of lines 147-149.
TestLabelSets == {ys \in [1..NumTest -> {0, 1}] : \E i, j \in 1..NumTest : ys[i] # ys[j]}

\* The labels of the b-th batch (0-based) of the unshuffled test loader.
TestBatchLabels(ys, b) ==
    SubSeq(ys, b * batch_size + 1, b * batch_size + BatchLen(Len(ys), b))

\* list.extend(values)
Extend(list, values) == list \o values

\* The matrix with its arguments taken in the other order.
ConfusionMatrixSwapped(y_true, y_pred) ==
    LET labels == {y_true[i] : i \in DOMAIN y_true} \cup {y_pred[i] : i \in DOMAIN y_pred}
    IN  [tp \in labels \X labels |->
            Cardinality({i \in DOMAIN y_true : y_pred[i] = tp[1] /\ y_true[i] = tp[2]})]

\* sklearn's confusion_matrix(y_true, y_pred): over the labels that occur in
\* either argument, entry (t, p) counts the examples of true label t and
\* predicted label p.
ConfusionMatrix(y_true, y_pred) ==
    LET labels == {y_true[i] : i \in DOMAIN y_true} \cup {y_pred[i] : i \in DOMAIN y_pred}
    IN  [tp \in labels \X labels |->
            Cardinality({i \in DOMAIN y_true : y_true[i] = tp[1] /\ y_pred[i] = tp[2]})]

\* Lines 705-731: loss function, an optimizer over model_0 that is never
\* stepped, the early-stopping names, model_0 in evaluation mode, the test
\* accumulators and the two trackers.  The test loader's labels are read here.
TestSetup ==
    /\ pc = "test_setup"
    /\ seeded' = TRUE
    /\ UNCHANGED unseeded_draws
    /\ best_val_loss' = PosInf
    /\ epochs_without_improvement' = 0
    /\ mode' = Eval(mode, 0)
    /\ test_loss' = Fin(0) /\ test_correct' = 0 /\ test_total' = 0
    /\ test_accuracy' = Fin(0)
    /\ y_pred_tracker' = << >> /\ y_true_tracker' = << >>
    /\ y_test' \in TestLabelSets
    /\ batch' = 0
    /\ pass_params' = params
    /\ pc' = "test_batch"
    /\ UNCHANGED << run, hyperVars, epoch, params, batch_ops, trainVars, valVars,
                    counter, histVars, error, stopped, ghostVars, steps,
                    batches_done, conf_matrix >>

\* Lines 736-763: one test batch: forward pass, predictions, the batch added
\* to the accumulators, predictions and labels appended to the trackers.
TestBatch ==
    /\ pc = "test_batch"
    /\ UNCHANGED rngVars
    /\ batch < NumBatches(NumTest)
    /\ LET y == TestBatchLabels(y_test, batch)
       IN  \E l \in LossValues, y_pred \in Vectors(Len(y)) :
              /\ test_loss' = FAdd(test_loss, l)
              /\ test_correct' = test_correct + CorrectCount(y_pred, y)
              /\ test_total' = test_total + Len(y)
              /\ y_pred_tracker' = Extend(y_pred_tracker, y_pred)
              /\ y_true_tracker' = Extend(y_true_tracker, y)
    /\ params' = EvalParams(params, 0)
    /\ batch' = batch + 1
    /\ UNCHANGED << pc, run, hyperVars, epoch, mode, batch_ops, trainVars,
                    valVars, stopVars, histVars, error, stopped, ghostVars,
                    pass_params, steps, batches_done, test_accuracy, y_test,
                    conf_matrix >>

\* Lines 766-775: the test loss is averaged per batch, the test accuracy
\* computed, and the confusion matrix built from the two trackers.
TestEnd ==
    /\ pc = "test_batch"
    /\ UNCHANGED rngVars
    /\ ~(batch < NumBatches(NumTest))
    /\ test_loss' = FDivInt(test_loss, NumBatches(NumTest))
    /\ test_accuracy' = Percent(test_correct, test_total)
    /\ conf_matrix' = ConfusionMatrix(y_true_tracker, y_pred_tracker)
    /\ pc' = "done"
    /\ UNCHANGED << run, hyperVars, epoch, batch, params, mode, batch_ops,
                    trainVars, valVars, stopVars, histVars, error, stopped,
                    ghostVars, pass_params, steps, batches_done, test_correct,
                    test_total, y_test, y_pred_tracker, y_true_tracker >>

TestNext == TestSetup \/ TestBatch \/ TestEnd

TrainNext ==
    \/ BuildModels \/ RunSetup \/ EpochBegin \/ EpochsExhausted
    \/ TrainBatch
    \/ TrainRecord \/ ValBegin \/ ValBatch \/ ValCompare
    \/ EarlyStop \/ ValRecord \/ EpochPrint \/ RunEnd

Next == TrainNext \/ TestNext

Spec == Init /\ [][Next]_vars

SpecAnyConfig == InitAnyConfig /\ [][Next]_vars

\* ================================================================ claims
\* Positions of a run at which a validation pass of that run has ended and the
\* run goes on.
Continuing ==
    \/ pc = "epoch_print"
    \/ pc = "epoch_head" /\ epoch # Undefined
    \/ pc \in {"train_batch", "val_start", "val_batch"} /\ epoch > 0

\* The run has ended before its epoch cap: by break, or by an exception.
EndedEarly == (pc = "run_end" /\ stopped # Undefined) \/ pc = "crashed"

\* The run has ended.
RunOver == pc \in {"run_end", "crashed"}

\* The epochs the run has entered.
EpochsEntered == IF epoch = Undefined THEN 0 ELSE epoch + 1

\* C1: a run ends before the epoch cap if and only if the non-improvement
\* counter has reached patience at the end of an epoch's validation pass, and
\* then at the first such epoch (a run that goes on has a counter below
\* patience); a run whose counter never reaches patience executes exactly
\* `epochs` epochs.
C1_StopsIffCounterReachesPatience ==
    /\ EndedEarly => (counter # Undefined /\ counter >= patience)
    /\ Continuing => (counter # Undefined /\ counter < patience)
    /\ (pc = "run_end" /\ stopped = Undefined) => EpochsEntered = epochs

\* Every summed validation loss of the run so far is not strictly lower than
\* that of epoch 0, which is a number.
FlatAfterEpoch0 ==
    /\ val_seen # {}
    /\ IsFinite(val_first)
    /\ \A v \in val_seen : ~FLt(v, val_first)

\* The epochs 0 .. n-1 in order.
EpochsUpTo(n) == [i \in 1..n |-> i - 1]

\* C2: with patience = 10 and an epoch cap of at least 11, a run whose summed
\* validation loss never goes strictly below that of epoch 0 stops exactly at
\* epoch 10, and its history holds exactly the metrics of epochs 0..9, the
\* triggering epoch contributing none.
C2_FlatRunStopsAtEpoch10With10Records ==
    (patience = 10 /\ epochs >= 11 /\ RunOver /\ FlatAfterEpoch0) =>
        /\ pc = "run_end" /\ stopped = 10
        /\ train_losses = EpochsUpTo(10) /\ train_accuracies = EpochsUpTo(10)
        /\ val_losses = EpochsUpTo(10) /\ val_accuracies = EpochsUpTo(10)

\* C3: at the end of every epoch's validation pass, the first epoch of a run
\* included, the counter is 0 if the epoch's summed validation loss is
\* strictly lower than best_val_loss as it stood before, and otherwise its
\* value before the epoch plus 1.
C3_CounterResetsOrIncrements ==
    (pc \in {"stop_check", "crashed"}) =>
        IF FLt(val_sum, prev.best)
        THEN counter = 0
        ELSE prev.counter # Undefined /\ counter = prev.counter + 1

\* Positions inside a training run, from its setup to its end.
InRun ==
    pc \in {"epoch_head", "train_batch", "val_start", "val_batch", "stop_check",
            "epoch_print", "run_end", "crashed"}

\* C4: within a run best_val_loss never increases at a comparison, and after
\* each comparison it is the minimum of +infinity and the summed validation
\* losses compared so far in the run: it is +infinity or one of them, and none
\* of them is strictly lower.
C4_BestValLossIsRunningMinimum ==
    /\ InRun =>
        /\ best_val_loss \in {PosInf} \cup val_seen
        /\ best_val_loss.kind # "nan"
        /\ \A v \in val_seen : ~FLt(v, best_val_loss)
    /\ (pc \in {"stop_check", "crashed"}) =>
        /\ val_sum \in val_seen
        /\ ~FLt(prev.best, best_val_loss)

\* C4 witness: a third comparison has met a NaN and kept a finite best that a
\* later, higher loss did not replace.
C4_Witness ==
    /\ pc = "stop_check" /\ epoch = 2
    /\ val_seen = {Fin(1), NaN, Fin(2)}
    /\ val_sum = Fin(2)
    /\ best_val_loss = Fin(1)

\* The elements of a history list.
Entries(list) == {list[i] : i \in DOMAIN list}

\* C5: when a run ends, by early stop or at the epoch cap, its history holds
\* one complete record per completed, non-stopped epoch: as many train_loss
\* and train_accuracy values as val_loss and val_accuracy values, and no
\* metric of an epoch that triggered early stopping.
C5_OneCompleteRecordPerEpoch ==
    (pc = "run_end") =>
        /\ Len(train_losses) = Len(val_losses)
        /\ Len(train_accuracies) = Len(val_accuracies)
        /\ train_losses = train_accuracies /\ val_losses = val_accuracies
        /\ stopped # Undefined =>
              stopped \notin Entries(train_losses) \cup Entries(val_losses)

\* C6: a non-finite training-batch loss or accumulated validation loss ends
\* the run in a surfaced numerical-instability error; it is never compared as
\* an ordinary non-improving epoch and nothing runs after it.
C6_NonFiniteLossEndsRunInError ==
    (InRun /\ (~IsFinite(train_loss) \/ ~IsFinite(val_loss) \/ ~IsFinite(val_sum))) =>
        (pc = "crashed" /\ error = "NumericInstabilityError")

\* A hyperparameter outside its valid range.
InvalidConfig == patience <= 0 \/ epochs <= 0

InEvalPass == pc \in {"val_batch", "stop_check", "epoch_print", "test_batch", "done"}

\* C8: the parameters change only by the one optimizer step of each training
\* batch, which follows a gradient clear and a backward pass in that order; a
\* validation pass and the test pass leave both models' parameters as they
\* were when the pass began.
C8_ParamsChangeOnlyByOneStepPerTrainBatch ==
    /\ InEvalPass => params = pass_params
    /\ (pc \in {"train_batch", "val_start"}) =>
        /\ steps = batch /\ batches_done = batch
        /\ params[run] = (pass_params[run] + batch) % ParamVersions
        /\ params[1 - run] = pass_params[1 - run]
        /\ batch > 0 => batch_ops = << "zero_grad", "backward", "step" >>
    /\ pc = "val_start" => batch = NumBatches(NumTrain)

\* C8 witness: the test pass has read every test batch of a model_0 whose
\* parameters training has moved, after a model_1 run that moved its own.
C8_Witness ==
    /\ pc = "test_batch" /\ batch = NumBatches(NumTest)
    /\ params[0] = 1 /\ params[1] = 2
    /\ pass_params = params

\* The examples the first b batches of a loader over n examples hold.
SeenAfter(n, b) == IF b * batch_size < n THEN b * batch_size ELSE n

\* a is exactly 100 * correct / total, and lies in [0, 100].
IsPercentOf(a, correct, total) ==
    /\ a.kind = "fin" /\ a.den > 0 /\ total > 0
    /\ a.num * total = 100 * correct * a.den
    /\ 0 <= a.num /\ a.num <= 100 * a.den

MatrixSum(m) == m[<<0, 0>>] + m[<<0, 1>>] + m[<<1, 0>>] + m[<<1, 1>>]

\* C10: the test pass emits one (predicted, true) record per test example, in
\* the loader's order; the confusion matrix of the records is 2x2, indexed by
\* (true label, predicted label), and its counts sum to the number of
\* records; labels [1,0,1,1,0] with predictions [1,0,0,1,0] give
\* {(1,1):2, (1,0):1, (0,0):2, (0,1):0}.
C10_OneRecordPerExampleAndConfusionMatrix ==
    /\ (pc \in {"test_batch", "done"}) =>
        /\ y_true_tracker = SubSeq(y_test, 1, SeenAfter(NumTest, batch))
        /\ Len(y_pred_tracker) = Len(y_true_tracker)
    /\ pc = "done" =>
        /\ y_true_tracker = y_test
        /\ Len(y_pred_tracker) = NumTest
        /\ DOMAIN conf_matrix = {0, 1} \X {0, 1}
        /\ MatrixSum(conf_matrix) = Len(y_pred_tracker)
        /\ conf_matrix[<<0, 0>>] + conf_matrix[<<1, 1>>] = test_correct
        /\ (y_true_tracker = << 1, 0, 1, 1, 0 >> /\ y_pred_tracker = << 1, 0, 0, 1, 0 >>) =>
              /\ conf_matrix[<<1, 1>>] = 2 /\ conf_matrix[<<1, 0>>] = 1
              /\ conf_matrix[<<0, 0>>] = 2 /\ conf_matrix[<<0, 1>>] = 0

\* C10 witness: the test pass has ended on labels [1,0,1,1,0] with
\* predictions [1,0,0,1,0], read in two batches.
C10_Witness ==
    /\ pc = "done"
    /\ y_true_tracker = << 1, 0, 1, 1, 0 >>
    /\ y_pred_tracker = << 1, 0, 0, 1, 0 >>
    /\ NumBatches(NumTest) = 2

\* C11: every random draw that influences a run (the initial parameters of
\* model_0 and model_1, the shuffling of the training and validation loaders,
\* the dropout masks) is made after torch's generator has been explicitly
\* seeded, so that the seed, the configuration and the data determine the
\* metrics of a run.
C11_EveryDrawFollowsSeeding ==
    /\ unseeded_draws = {}
    /\ (pc \in {"train_batch", "val_start", "val_batch"}) => seeded

\* C12: the mode is switched before each phase: the run's model is in train
\* mode while the training batches of an epoch are processed and in
\* evaluation mode while its validation batches are processed, up to the end
\* of the run however it ends; model_0 is in evaluation mode for every batch
\* of the test pass.
C12_ModeSwitchedBeforeEachPhase ==
    /\ (pc \in {"train_batch", "val_start"}) => mode[run] = "train"
    /\ (pc \in {"val_batch", "stop_check", "epoch_print"}) => mode[run] = "eval"
    /\ (pc = "run_end" /\ epoch # Undefined) => mode[run] = "eval"
    /\ (pc \in {"test_batch", "done"}) => mode[0] = "eval"

\* C12 witness: the model_1 run has ended by early stop, its model having
\* gone from train mode to evaluation mode in each of its epochs, and model_0
\* is still in the evaluation mode its own run left it in.
C12_Witness ==
    /\ pc = "run_end" /\ run = 1 /\ stopped # Undefined /\ stopped > 1
    /\ mode = [m \in {0, 1} |-> "eval"]

\* C13: each run starts from a fresh early-stopping state: when the first
\* epoch of the model_0 run and of the model_1 run begins, best_val_loss is
\* +infinity and the non-improvement counter is defined and equal to 0, so
\* that no run reads the counter value another run left.
C13_RunStartsFromFreshState ==
    (pc = "epoch_head" /\ epoch = Undefined) =>
        /\ best_val_loss = PosInf
        /\ counter # Undefined /\ counter = 0

\* The per-batch-averaged validation loss recorded for a summed loss v.
Averaged(v) == FDivInt(v, NumBatches(NumVal))

\* The comparison of line 434 has found an improvement: it has reset the
\* counter and taken the epoch's summed loss as the best one.
FoundImprovement == pc = "stop_check" /\ counter = 0 /\ best_val_loss = val_sum

====
